---- MODULE Spec2Model ----
(***************************************************************************)
(* Model of the mandala generator of src/src/App.tsx (SeededRandom, the    *)
(* DrawFn pattern primitives, difficultyMap and MandalaGenerator).         *)
(*                                                                         *)
(* Numbers.  JavaScript numbers are doubles; every quantity below that the *)
(* code computes is an integer below 2^53 or a ratio of such integers, so  *)
(* integers and fractions represent them exactly.  The model checker's own *)
(* integers are 32 bits wide, so a 32-bit word is kept as two 16-bit       *)
(* halves [hi, lo] (value hi * 65536 + lo) wherever the code's value can   *)
(* reach 2^31.                                                             *)
(***************************************************************************)
EXTENDS Integers, Sequences, FiniteSets, TLC

----------------------------------------------------------------------------
(* Arithmetic helpers *)

Half == 65536

Word(hi, lo) == [hi |-> hi, lo |-> lo]

ToWord(n) == Word(n \div Half, n % Half)

Abs(x) == IF x < 0 THEN -x ELSE x

RECURSIVE GCD(_, _)
GCD(a, b) == IF b = 0 THEN a ELSE GCD(b, a % b)

(* The ratio n/d in lowest terms with a positive denominator; d = 0 is     *)
(* JavaScript's NaN or Infinity and is kept as written.                    *)
Frac(n, d) ==
  IF d = 0 THEN <<n, 0>>
  ELSE LET g == GCD(Abs(n), Abs(d))
           sg == IF d < 0 THEN -1 ELSE 1
       IN  <<sg * (n \div g), sg * (d \div g)>>

FMul(a, b) == Frac(a[1] * b[1], a[2] * b[2])
FAdd(a, b) == Frac(a[1] * b[2] + b[1] * a[2], a[2] * b[2])
FNeg(a) == <<-a[1], a[2]>>
FSub(a, b) == FAdd(a, FNeg(b))
FInt(n) == <<n, 1>>

(* Ceil3 written with the remainder, complexity % 3, for the quotient *)
Ceil3Remainder(n) == n % 3

(* Math.ceil(n / 3) *)
Ceil3(n) == -((-n) \div 3)

----------------------------------------------------------------------------
(* SeededRandom *)

(* h << 5 on a 32-bit word *)
Shl5(w) ==
  LET l == w.lo * 32
  IN  Word((w.hi * 32 + l \div Half) % Half, l % Half)

(* a - b modulo 2^32 *)
Sub32(a, b) ==
  LET l == a.lo - b.lo
      borrow == IF l < 0 THEN 1 ELSE 0
  IN  Word((a.hi - b.hi - borrow) % Half, l % Half)

(* a + c modulo 2^32, c a UTF-16 code unit *)
Add32(a, c) ==
  LET l == a.lo + c
  IN  Word((a.hi + l \div Half) % Half, l % Half)

(* Math.abs of the word read as a signed 32-bit integer: the magnitude of  *)
(* -2^31 is 2^31, which is a valid double.                                 *)
Abs32(w) ==
  IF w.hi < 32768 THEN w
  ELSE Word(65535 - w.hi + (IF w.lo = 0 THEN 1 ELSE 0), (Half - w.lo) % Half)

(* hashStep adding h where the code subtracts it: (h << 5) + h + c *)
hashStepPlus(h, c) == Add32(Sub32(Shl5(h), Sub32(Word(0, 0), h)), c)

(* One loop iteration: h = ((h << 5) - h + str.charCodeAt(i)) | 0 *)
hashStep(h, c) == Add32(Sub32(Shl5(h), h), c)

(* The loop from character i on (1-based), with h the value so far.  h is  *)
(* a 32-bit word at every iteration; reading it there also has it          *)
(* evaluated iteration by iteration instead of all at once at the end.     *)
RECURSIVE hashFold(_, _, _)
hashFold(str, i, h) ==
  IF h.hi \in 0..(Half - 1) /\ i > Len(str) THEN h
  ELSE hashFold(str, i + 1, hashStep(h, str[i]))

hash(str) == Abs32(hashFold(str, 1, Word(0, 0)))

Modulus == 233280

(* The word's value modulo Modulus *)
WordMod(w) == (((w.hi * 256) % Modulus) * 256 + w.lo) % Modulus

(* LcgStep taking the remainder by 233281 *)
LcgStepInclusive(v) == ((((v * 100) % (Modulus + 1)) * 93) + v + 49297) % (Modulus + 1)

(* (seed * 9301 + 49297) % 233280, with 9301 = 93 * 100 + 1 multiplied in  *)
(* two steps to stay inside the checker's integers.                        *)
LcgStep(v) == ((((v * 100) % Modulus) * 93) + v + 49297) % Modulus

(* random(): the new state, and the numerator num of the value returned,   *)
(* num / 233280.                                                           *)
random(seed) ==
  LET v == LcgStep(WordMod(seed))
  IN  [seed |-> ToWord(v), num |-> v]

(* int with Math.round in place of Math.floor *)
intRounded(seed, min, max) ==
  LET r == random(seed)
  IN  [seed |-> r.seed,
       val |-> ((2 * r.num * (max - min + 1) + Modulus) \div (2 * Modulus)) + min]

(* int with the span one too wide: (max - min + 2) *)
intOffByOne(seed, min, max) ==
  LET r == random(seed)
  IN  [seed |-> r.seed, val |-> ((r.num * (max - min + 2)) \div Modulus) + min]

(* int without the + 1: Math.floor(random() * (max - min)) + min *)
intBelowMax(seed, min, max) ==
  LET r == random(seed)
  IN  [seed |-> r.seed, val |-> ((r.num * (max - min)) \div Modulus) + min]

(* int(min, max): Math.floor(random() * (max - min + 1)) + min *)
int(seed, min, max) ==
  LET r == random(seed)
  IN  [seed |-> r.seed, val |-> ((r.num * (max - min + 1)) \div Modulus) + min]

Undefined == "undefined"

(* choice drawing its index from 0..arr.length *)
choiceLengthInclusive(seed, arr) ==
  LET r == int(seed, 0, Len(arr))
  IN  [seed |-> r.seed,
       val  |-> IF r.val + 1 \in DOMAIN arr THEN arr[r.val + 1] ELSE Undefined]

(* choice(arr): arr[int(0, arr.length - 1)]; JavaScript indexes from 0 and *)
(* an index outside the array reads undefined.                             *)
choice(seed, arr) ==
  LET r == int(seed, 0, Len(arr) - 1)
  IN  [seed |-> r.seed,
       val  |-> IF r.val + 1 \in DOMAIN arr THEN arr[r.val + 1] ELSE Undefined]

----------------------------------------------------------------------------
(* Geometry values.  A coordinate that involves a sine, a cosine or a      *)
(* square root is kept as the expression the code evaluates, with its      *)
(* rational arguments: <<"cos", c, r, a>> is c + r * cos(a) and an angle   *)
(* <<"pi", f>> is f * pi radians.                                          *)

PiAngle(n, d) == <<"pi", Frac(n, d)>>
CosAt(c, r, a) == <<"cos", c, r, a>>
SinAt(c, r, a) == <<"sin", c, r, a>>

NeutralStroke == "#222"
OutlineStroke == "#000"

(* p[i % p.length]: the remainder by 0 is NaN and p[NaN] is undefined *)
(* PaletteAt that stays on the last colour once the palette is used up *)
PaletteAtClamped(p, i) ==
  IF Len(p) = 0 THEN Undefined ELSE IF i < Len(p) THEN p[i + 1] ELSE p[Len(p)]

(* PaletteAt without the modulo, p[i]: undefined past the end *)
PaletteAtNoWrap(p, i) == IF i + 1 \in DOMAIN p THEN p[i + 1] ELSE Undefined

PaletteAt(p, i) == IF Len(p) = 0 THEN Undefined ELSE p[(i % Len(p)) + 1]

(* `region-${n}` *)
RegionId(n) == <<"region-", n>>

RegionSpec(regId, color, path) == [id |-> regId, color |-> color, path |-> path]

(* `<tag id="..." geometry... fill="color" stroke="#222" stroke-width="2"/>` *)
ShapeNode(tag, regId, geom, color) ==
  [tag   |-> tag,
   attrs |-> <<<<"id", regId>>>> \o geom \o
             <<<<"fill", color>>, <<"stroke", NeutralStroke>>, <<"stroke-width", 2>>>>]

(* What a DrawFn leaves behind: the two arrays it pushed to, the number it *)
(* returns and the random source it was handed.                            *)
Drawn(regions, svg, ret, rng) ==
  [regions |-> regions, svg |-> svg, ret |-> ret, rng |-> rng]

(* A loop iteration that paints the node with the stroke colour *)
ShapeUnfilled(regId, color, path, tag, geom) ==
  [region |-> RegionSpec(regId, color, path),
   node |-> ShapeNode(tag, regId, geom, NeutralStroke)]

(* One loop iteration's regions.push({id, color, path}) and svg.push(node) *)
Shape(regId, color, path, tag, geom) ==
  [region |-> RegionSpec(regId, color, path), node |-> ShapeNode(tag, regId, geom, color)]

(* The arrays after the loop pushed shapes[1], shapes[2], ... in order *)
Pushed(regions, svg, shapes, ret, rng) ==
  LET all == <<>> \o shapes
  IN  Drawn(regions \o [k \in 1..Len(all) |-> all[k].region],
            svg \o [k \in 1..Len(all) |-> all[k].node], ret, rng)

----------------------------------------------------------------------------
(* Pattern generators (DrawFn).  c is the centre, s the canvas size, p the *)
(* palette, regions and svg the arrays pushed to, id the first region      *)
(* number, rng the random source, complexity the level.  The loop variable *)
(* i of the code is k - 1 below.                                           *)

(* maxR * (1 - i / n) *)
Shrink(maxR, i, n) == FMul(maxR, Frac(n - i, n))

(* concentricCircles naming every ring `region-${id}`, without the + i *)
concentricCirclesSameId(c, s, p, regions, svg, id, rng, complexity) ==
  LET rings == 2 + complexity
      maxR == FMul(s, Frac(4, 10))
      shape(i) ==
        LET r == Shrink(maxR, i, rings)
        IN  Shape(RegionId(id), PaletteAt(p, i),
                  << <<"M", FSub(c, r), c>>,
                     <<"A", r, r, 0, 1, 1, FAdd(c, r), c>>,
                     <<"A", r, r, 0, 1, 1, FSub(c, r), c>>,
                     <<"Z">> >>,
                  "circle", << <<"cx", c>>, <<"cy", c>>, <<"r", r>> >>)
  IN  Pushed(regions, svg, [k \in 1..rings |-> shape(k - 1)], id + rings, rng)

concentricCircles(c, s, p, regions, svg, id, rng, complexity) ==
  LET rings == 2 + complexity
      maxR == FMul(s, Frac(4, 10))
      shape(i) ==
        LET r == Shrink(maxR, i, rings)
        IN  Shape(RegionId(id + i), PaletteAt(p, i),
                  << <<"M", FSub(c, r), c>>,
                     <<"A", r, r, 0, 1, 1, FAdd(c, r), c>>,
                     <<"A", r, r, 0, 1, 1, FSub(c, r), c>>,
                     <<"Z">> >>,
                  "circle", << <<"cx", c>>, <<"cy", c>>, <<"r", r>> >>)
  IN  Pushed(regions, svg, [k \in 1..rings |-> shape(k - 1)], id + rings, rng)

concentricSquares(c, s, p, regions, svg, id, rng, complexity) ==
  LET squares == 2 + complexity
      maxSize == FMul(s, Frac(7, 10))
      shape(i) ==
        LET size == Shrink(maxSize, i, squares)
            half == FMul(size, Frac(1, 2))
            lo == FSub(c, half)
            hi == FAdd(c, half)
        IN  Shape(RegionId(id + i), PaletteAt(p, i),
                  << <<"M", lo, lo>>, <<"L", hi, lo>>, <<"L", hi, hi>>, <<"L", lo, hi>>,
                     <<"Z">> >>,
                  "rect", << <<"x", lo>>, <<"y", lo>>, <<"width", size>>,
                             <<"height", size>> >>)
  IN  Pushed(regions, svg, [k \in 1..squares |-> shape(k - 1)], id + squares, rng)

trianglePattern(c, s, p, regions, svg, id, rng, complexity) ==
  LET layers == 1 + complexity
      maxR == FMul(s, Frac(4, 10))
      shape(layer) ==
        LET r == Shrink(maxR, layer, layers + 1)
            (* height = r * sqrt(3) / 2; y1 = c - height / 2, y2 = y3 = c + height / 2 *)
            y1 == <<"c-r*sqrt3/4", c, r>>
            y2 == <<"c+r*sqrt3/4", c, r>>
            x2 == FSub(c, FMul(r, Frac(1, 2)))
            x3 == FAdd(c, FMul(r, Frac(1, 2)))
        IN  Shape(RegionId(layer + id), PaletteAt(p, layer),
                  << <<"M", c, y1>>, <<"L", x2, y2>>, <<"L", x3, y2>>, <<"Z">> >>,
                  "polygon", << <<"points", << <<c, y1>>, <<x2, y2>>, <<x3, y2>> >> >> >>)
  IN  Pushed(regions, svg, [k \in 1..layers |-> shape(k - 1)], id + layers, rng)

diamondPattern(c, s, p, regions, svg, id, rng, complexity) ==
  LET diamonds == 2 + complexity
      maxR == FMul(s, Frac(4, 10))
      shape(i) ==
        LET r == Shrink(maxR, i, diamonds)
            path == << <<"M", c, FSub(c, r)>>, <<"L", FAdd(c, r), c>>,
                       <<"L", c, FAdd(c, r)>>, <<"L", FSub(c, r), c>>, <<"Z">> >>
        IN  Shape(RegionId(id + i), PaletteAt(p, i), path, "path", << <<"d", path>> >>)
  IN  Pushed(regions, svg, [k \in 1..diamonds |-> shape(k - 1)], id + diamonds, rng)

(* The vertices of one star: i * PI / points - PI / 2, alternating radii *)
StarPath(c, rOuter, rInner, points) ==
  [j \in 1..(points * 2) |->
     LET i == j - 1
         ang == PiAngle(2 * i - points, 2 * points)
         r == IF i % 2 = 0 THEN rOuter ELSE rInner
     IN  << IF i = 0 THEN "M" ELSE "L", CosAt(c, r, ang), SinAt(c, r, ang) >>]
    \o << <<"Z">> >>

starPattern(c, s, p, regions, svg, id, rng, complexity) ==
  LET layers == 1 + Ceil3(complexity)
      maxR == FMul(s, Frac(4, 10))
      shape(layer) ==
        LET (* maxR * (1 - layer / (layers + 0.5)) *)
            rOuter == FMul(maxR, Frac(2 * layers + 1 - 2 * layer, 2 * layers + 1))
            rInner == FMul(rOuter, Frac(4, 10))
            points == 5 + complexity + layer
            path == StarPath(c, rOuter, rInner, points)
        IN  Shape(RegionId(id + layer), PaletteAt(p, layer), path, "path", << <<"d", path>> >>)
  IN  Pushed(regions, svg, [k \in 1..layers |-> shape(k - 1)], id + layers, rng)

(* The six vertices without the closing ' Z' *)
HexagonPathOpen(c, r) ==
  [k \in 1..6 |->
     LET j == k - 1
         ang == PiAngle(j, 3)
     IN  << IF j = 0 THEN "M" ELSE "L", CosAt(c, r, ang), SinAt(c, r, ang) >>]

(* The six vertices j * PI / 3 of one hexagon, then ' Z' *)
HexagonPath(c, r) ==
  [k \in 1..6 |->
     LET j == k - 1
         ang == PiAngle(j, 3)
     IN  << IF j = 0 THEN "M" ELSE "L", CosAt(c, r, ang), SinAt(c, r, ang) >>]
    \o << <<"Z">> >>

hexagonPattern(c, s, p, regions, svg, id, rng, complexity) ==
  LET hexagons == 2 + complexity
      maxR == FMul(s, Frac(4, 10))
      shape(i) ==
        LET path == HexagonPath(c, Shrink(maxR, i, hexagons))
        IN  Shape(RegionId(id + i), PaletteAt(p, i), path, "path", << <<"d", path>> >>)
  IN  Pushed(regions, svg, [k \in 1..hexagons |-> shape(k - 1)], id + hexagons, rng)

petalFlower(c, s, p, regions, svg, id, rng, complexity) ==
  LET petals == 6 + complexity * 2
      rOuter == FMul(s, Frac(35, 100))
      rPetal == FMul(rOuter, Frac(6, 10))
      rCentre == FMul(rOuter, Frac(7, 10))
      shape(i) ==
        LET ang == PiAngle(i * 2, petals)
            (* relative arc: radii, rotation ang * 180 / PI in degrees,    *)
            (* flags, end point (-rPetal * cos(ang), -rPetal * sin(ang))   *)
            path == << <<"M", CosAt(c, rCentre, ang), SinAt(c, rCentre, ang)>>,
                       <<"a", rPetal, FMul(rPetal, Frac(8, 10)), Frac(i * 360, petals), 1, 1,
                         CosAt(FInt(0), FNeg(rPetal), ang),
                         SinAt(FInt(0), FNeg(rPetal), ang)>>,
                       <<"Z">> >>
        IN  Shape(RegionId(id + i), PaletteAt(p, i), path, "path", << <<"d", path>> >>)
  IN  Pushed(regions, svg, [k \in 1..petals |-> shape(k - 1)], id + petals, rng)

(* The inner loop of spiralPattern runs t = 0, 0.2, 0.4, ... while         *)
(* t <= 2 * PI: the last t is 6.2, after 31 additions.                     *)
SpiralSteps == 31

(* t = n / 5; r = maxR * t / (2 * PI); ang = baseAngle + t *)
SpiralPath(c, maxR, baseAngle) ==
  << <<"M", c, c>> >>
    \o [j \in 1..(SpiralSteps + 1) |->
          LET t == Frac(j - 1, 5)
          IN  <<"L", <<"spiral-x", c, maxR, t, baseAngle>>,
                     <<"spiral-y", c, maxR, t, baseAngle>> >>]
    \o << <<"Z">> >>

spiralPattern(c, s, p, regions, svg, id, rng, complexity) ==
  LET arms == 3 + complexity
      maxR == FMul(s, Frac(4, 10))
      shape(arm) ==
        LET path == SpiralPath(c, maxR, PiAngle(arm * 2, arms))
        IN  Shape(RegionId(id + arm), PaletteAt(p, arm), path, "path", << <<"d", path>> >>)
  IN  Pushed(regions, svg, [k \in 1..arms |-> shape(k - 1)], id + arms, rng)

radialSegments(c, s, p, regions, svg, id, rng, complexity) ==
  LET segments == 6 + complexity * 2
      maxR == FMul(s, Frac(4, 10))
      shape(i) ==
        LET ang1 == PiAngle(i * 2, segments)
            ang2 == PiAngle((i + 1) * 2, segments)
            path == << <<"M", c, c>>,
                       <<"L", CosAt(c, maxR, ang1), SinAt(c, maxR, ang1)>>,
                       <<"A", maxR, maxR, 0, 0, 1, CosAt(c, maxR, ang2), SinAt(c, maxR, ang2)>>,
                       <<"Z">> >>
        IN  Shape(RegionId(id + i), PaletteAt(p, i), path, "path", << <<"d", path>> >>)
  IN  Pushed(regions, svg, [k \in 1..segments |-> shape(k - 1)], id + segments, rng)

(* waveR = r + amplitude * sin(ang * frequency), ang = i * 2 PI / points,  *)
(* for i = 0 .. points                                                     *)
WavePath(c, r, amplitude, frequency, points) ==
  [j \in 1..(points + 1) |->
     LET i == j - 1
         ang == PiAngle(i * 2, points)
     IN  << IF i = 0 THEN "M" ELSE "L",
            <<"wave-x", c, r, amplitude, frequency, ang>>,
            <<"wave-y", c, r, amplitude, frequency, ang>> >>]
    \o << <<"Z">> >>

wavePattern(c, s, p, regions, svg, id, rng, complexity) ==
  LET waves == 4 + complexity
      maxR == FMul(s, Frac(4, 10))
      frequency == 8 + complexity * 2
      points == frequency * 4
      shape(w) ==
        LET r == Shrink(maxR, w, waves + 1)
            path == WavePath(c, r, FMul(r, Frac(2, 10)), frequency, points)
        IN  Shape(RegionId(id + w), PaletteAt(p, w), path, "path", << <<"d", path>> >>)
  IN  Pushed(regions, svg, [k \in 1..waves |-> shape(k - 1)], id + waves, rng)

crossPattern(c, s, p, regions, svg, id, rng, complexity) ==
  LET layers == 2 + complexity
      maxSize == FMul(s, Frac(6, 10))
      shape(i) ==
        LET size == Shrink(maxSize, i, layers)
            half == FMul(size, Frac(1, 2))
            thickHalf == FMul(FMul(size, Frac(3, 10)), Frac(1, 2))
            a == FSub(c, half)
            b == FSub(c, thickHalf)
            d == FAdd(c, thickHalf)
            e == FAdd(c, half)
            path == << <<"M", b, a>>, <<"L", d, a>>, <<"L", d, b>>, <<"L", e, b>>,
                       <<"L", e, d>>, <<"L", d, d>>, <<"L", d, e>>, <<"L", b, e>>,
                       <<"L", b, d>>, <<"L", a, d>>, <<"L", a, b>>, <<"L", b, b>>,
                       <<"Z">> >>
        IN  Shape(RegionId(id + i), PaletteAt(p, i), path, "path", << <<"d", path>> >>)
  IN  Pushed(regions, svg, [k \in 1..layers |-> shape(k - 1)], id + layers, rng)

----------------------------------------------------------------------------
(* Difficulty configuration *)

(* difficultyMap whose advanced tier lists only the rich patterns *)
difficultyMapRichOnly ==
  [beginner |->
     [complexityRange |-> <<1, 2>>,
      generators |-> <<"concentricCircles", "concentricSquares", "trianglePattern",
                       "diamondPattern", "hexagonPattern", "crossPattern">>],
   intermediate |->
     [complexityRange |-> <<2, 4>>,
      generators |-> <<"concentricCircles", "concentricSquares", "trianglePattern",
                       "diamondPattern", "starPattern", "hexagonPattern", "petalFlower",
                       "radialSegments", "crossPattern">>],
   advanced |->
     [complexityRange |-> <<4, 6>>,
      generators |-> <<"starPattern", "petalFlower", "spiralPattern", "wavePattern">>]]

difficultyMap ==
  [beginner |->
     [complexityRange |-> <<1, 2>>,
      generators |-> <<"concentricCircles", "concentricSquares", "trianglePattern",
                       "diamondPattern", "hexagonPattern", "crossPattern">>],
   intermediate |->
     [complexityRange |-> <<2, 4>>,
      generators |-> <<"concentricCircles", "concentricSquares", "trianglePattern",
                       "diamondPattern", "starPattern", "hexagonPattern", "petalFlower",
                       "radialSegments", "crossPattern">>],
   advanced |->
     [complexityRange |-> <<4, 6>>,
      generators |-> <<"concentricCircles", "concentricSquares", "trianglePattern",
                       "diamondPattern", "starPattern", "hexagonPattern", "petalFlower",
                       "spiralPattern", "radialSegments", "wavePattern", "crossPattern">>]]

Difficulties == <<"beginner", "intermediate", "advanced">>

(* The DrawFn values the module defines *)
GeneratorNames ==
  {"concentricCircles", "concentricSquares", "trianglePattern", "diamondPattern",
   "starPattern", "hexagonPattern", "petalFlower", "spiralPattern", "radialSegments",
   "wavePattern", "crossPattern"}

(* generator(center, canvasSize, palette, regions, svgParts, id, rng, complexity) *)
CallGenerator(generator, c, s, p, regions, svg, id, rng, complexity) ==
  CASE generator = "concentricCircles" -> concentricCircles(c, s, p, regions, svg, id, rng, complexity)
    [] generator = "concentricSquares" -> concentricSquares(c, s, p, regions, svg, id, rng, complexity)
    [] generator = "trianglePattern"   -> trianglePattern(c, s, p, regions, svg, id, rng, complexity)
    [] generator = "diamondPattern"    -> diamondPattern(c, s, p, regions, svg, id, rng, complexity)
    [] generator = "starPattern"       -> starPattern(c, s, p, regions, svg, id, rng, complexity)
    [] generator = "hexagonPattern"    -> hexagonPattern(c, s, p, regions, svg, id, rng, complexity)
    [] generator = "petalFlower"       -> petalFlower(c, s, p, regions, svg, id, rng, complexity)
    [] generator = "spiralPattern"     -> spiralPattern(c, s, p, regions, svg, id, rng, complexity)
    [] generator = "radialSegments"    -> radialSegments(c, s, p, regions, svg, id, rng, complexity)
    [] generator = "wavePattern"       -> wavePattern(c, s, p, regions, svg, id, rng, complexity)
    [] generator = "crossPattern"      -> crossPattern(c, s, p, regions, svg, id, rng, complexity)

----------------------------------------------------------------------------
(* [...palette].sort(() => this.rng.random() - 0.5)                        *)
(*                                                                         *)
(* The comparator ignores its arguments and draws from the random source,  *)
(* so it is not a consistent comparator and the order the sort produces is *)
(* implementation-defined: it depends on which comparisons the host's sort *)
(* makes.  Two hosts are modelled: a straight insertion sort and the       *)
(* run-detection plus binary-insertion sort V8 applies to short arrays.    *)
(* Indices i, j, left, right, mid are the 0-based indices of the host      *)
(* algorithm; a[i + 1] is its element i.                                   *)

Engines == {"insertion", "binaryInsertion"}

(* One comparator call: the sign of random() - 0.5 *)
shuffleCompare(seed) ==
  LET r == random(seed)
  IN  [seed  |-> r.seed,
       order |-> IF 2 * r.num < Modulus THEN -1 ELSE IF 2 * r.num = Modulus THEN 0 ELSE 1]

RECURSIVE InsertionInner(_, _, _, _)
InsertionInner(a, seed, j, element) ==
  IF j < 0 THEN [a |-> [a EXCEPT ![j + 2] = element], seed |-> seed]
  ELSE LET cmp == shuffleCompare(seed)
       IN  IF cmp.order > 0
           THEN InsertionInner([a EXCEPT ![j + 2] = a[j + 1]], cmp.seed, j - 1, element)
           ELSE [a |-> [a EXCEPT ![j + 2] = element], seed |-> cmp.seed]

RECURSIVE InsertionSort(_, _, _)
InsertionSort(a, seed, i) ==
  IF i >= Len(a) THEN [a |-> a, seed |-> seed]
  ELSE LET st == InsertionInner(a, seed, i - 1, a[i + 1])
       IN  InsertionSort(st.a, st.seed, i + 1)

(* Length of the run that starts at element 0, after the first comparison  *)
(* fixed its direction.                                                    *)
RECURSIVE RunScan(_, _, _, _, _)
RunScan(seed, idx, high, isDescending, runLength) ==
  IF idx >= high THEN [seed |-> seed, runLength |-> runLength]
  ELSE LET cmp == shuffleCompare(seed)
       IN  IF (isDescending /\ cmp.order >= 0) \/ (~isDescending /\ cmp.order < 0)
           THEN [seed |-> cmp.seed, runLength |-> runLength]
           ELSE RunScan(cmp.seed, idx + 1, high, isDescending, runLength + 1)

Reverse(a, n) == [i \in 1..Len(a) |-> IF i <= n THEN a[n + 1 - i] ELSE a[i]]

CountAndMakeRun(a, seed) ==
  IF Len(a) = 1 THEN [a |-> a, seed |-> seed, runLength |-> 1]
  ELSE LET first == shuffleCompare(seed)
           scan == RunScan(first.seed, 2, Len(a), first.order < 0, 2)
       IN  [a |-> IF first.order < 0 THEN Reverse(a, scan.runLength) ELSE a,
            seed |-> scan.seed, runLength |-> scan.runLength]

RECURSIVE BinarySearch(_, _, _)
BinarySearch(seed, left, right) ==
  IF left >= right THEN [seed |-> seed, left |-> left]
  ELSE LET mid == left + ((right - left) \div 2)
           cmp == shuffleCompare(seed)
       IN  IF cmp.order < 0 THEN BinarySearch(cmp.seed, left, mid)
           ELSE BinarySearch(cmp.seed, mid + 1, right)

(* Move element start to position left, shifting the elements between *)
InsertAt(a, left, start) ==
  [i \in 1..Len(a) |->
     IF i = left + 1 THEN a[start + 1]
     ELSE IF i > left + 1 /\ i <= start + 1 THEN a[i - 1]
     ELSE a[i]]

RECURSIVE BinaryInsertionSort(_, _, _)
BinaryInsertionSort(a, seed, start) ==
  IF start >= Len(a) THEN [a |-> a, seed |-> seed]
  ELSE LET pos == BinarySearch(seed, 0, start)
       IN  BinaryInsertionSort(InsertAt(a, pos.left, start), pos.seed, start + 1)

(* A palette of the same length drawn entry by entry with choice *)
RECURSIVE SampleFrom(_, _, _)
SampleFrom(a, seed, out) ==
  IF Len(out) >= Len(a) THEN [a |-> out, seed |-> seed]
  ELSE LET c == choice(seed, a)
       IN  SampleFrom(a, c.seed, Append(out, c.val))

(* shuffleSort written as palette.map(() => rng.choice(palette)) *)
shuffleSortSampled(engine, a, seed) == SampleFrom(a, seed, <<>>)

(* The colours of the palettes in string order *)
StringOrder == <<"#1E88E5", "#E53935", "#FDD835">>

(* shuffleSort with the comparator left out, [...palette].sort(): string   *)
(* order, and no draw from the random source                               *)
shuffleSortNoComparator(engine, a, seed) ==
  [a |-> SelectSeq(StringOrder, LAMBDA col : \E i \in DOMAIN a : a[i] = col), seed |-> seed]

shuffleSort(engine, a, seed) ==
  IF Len(a) < 2 THEN [a |-> a, seed |-> seed]
  ELSE IF engine = "insertion" THEN InsertionSort(a, seed, 1)
  ELSE LET run == CountAndMakeRun(a, seed)
       IN  BinaryInsertionSort(run.a, run.seed, run.runLength)

----------------------------------------------------------------------------
(* MandalaGenerator *)

(* The SVG document is kept as its element structure: the attributes of    *)
(* the root element and the shape nodes in text order.  Palette colours    *)
(* are taken not to contain a double quote, so every attribute the regular *)
(* expressions see is one whole name="value" pair.                         *)
SvgDocument(canvasSize, svgParts) ==
  [root  |-> << <<"width", canvasSize>>, <<"height", canvasSize>>,
                <<"viewBox", <<0, 0, canvasSize, canvasSize>>>>,
                <<"xmlns", "http://www.w3.org/2000/svg">> >>,
   nodes |-> svgParts]

(* .replace(/fill="[^"]*"/g, 'fill="none"') on one attribute *)
replaceFill(attr) == IF attr[1] = "fill" THEN <<"fill", "none">> ELSE attr

(* replaceStroke looking for another stroke colour than the one drawn *)
replaceStrokeOtherColor(attr) ==
  IF attr[1] = "stroke" /\ attr[2] = "#333" THEN <<"stroke", OutlineStroke>> ELSE attr

(* .replace(/stroke="#222"/g, 'stroke="#000"') on one attribute *)
replaceStroke(attr) ==
  IF attr[1] = "stroke" /\ attr[2] = NeutralStroke THEN <<"stroke", OutlineStroke>> ELSE attr

(* MapAttrs with a greedy pattern, fill=".*": the match runs to the last   *)
(* quote of the line and swallows the attributes after fill.               *)
MapAttrsGreedy(attrs) ==
  LET fills == {i \in 1..Len(attrs) : attrs[i][1] = "fill"}
      first == CHOOSE i \in fills : \A j \in fills : i <= j
  IN  IF fills = {} THEN attrs
      ELSE SubSeq(attrs, 1, first - 1) \o << <<"fill", "none">> >>

MapAttrs(attrs) == [i \in 1..Len(attrs) |-> replaceStroke(replaceFill(attrs[i]))]

outlineOf(coloredSvg) ==
  [root  |-> MapAttrs(coloredSvg.root),
   nodes |-> [i \in 1..Len(coloredSvg.nodes) |->
                [tag   |-> coloredSvg.nodes[i].tag,
                 attrs |-> MapAttrs(coloredSvg.nodes[i].attrs)]]]

(* generate(), line by line. Each step below takes the locals computed so   *)
(* far and computes the next one; the last builds what the call returns     *)
(* (coloredSvg, outlineSvg, regions) together with the locals and the state *)
(* it leaves in this.rng. Calling a generator that is not a function throws *)
(* a TypeError and nothing is returned.                                     *)
generateReturn(generator, complexity, shuffledPalette, drawn, coloredSvg) ==
  [threw |-> generator.val \notin GeneratorNames,
   rng |-> drawn.rng,
   generator |-> generator.val,
   complexity |-> complexity.val,
   shuffledPalette |-> shuffledPalette.a,
   coloredSvg |-> coloredSvg,
   outlineSvg |-> outlineOf(coloredSvg),
   regions |-> drawn.regions]

generateColored(settings, generator, complexity, shuffledPalette, drawn) ==
  generateReturn(generator, complexity, shuffledPalette, drawn,
                 SvgDocument(settings.canvasSize, drawn.svg))

generateDraw(settings, generator, complexity, shuffledPalette) ==
  generateColored(settings, generator, complexity, shuffledPalette,
                  IF generator.val \in GeneratorNames
                  THEN CallGenerator(generator.val, Frac(settings.canvasSize, 2),
                                     FInt(settings.canvasSize), shuffledPalette.a,
                                     <<>>, <<>>, 0, shuffledPalette.seed, complexity.val)
                  ELSE Drawn(<<>>, <<>>, 0, shuffledPalette.seed))

generateShuffle(settings, engine, generator, complexity) ==
  generateDraw(settings, generator, complexity,
               shuffleSort(engine, settings.palette, complexity.seed))

generateComplexity(settings, engine, generator) ==
  generateShuffle(settings, engine, generator,
                  int(generator.seed,
                      difficultyMap[settings.difficulty].complexityRange[1],
                      difficultyMap[settings.difficulty].complexityRange[2]))

(* generate() sorting the palette before it picks the design type *)
generateShuffleFirst(settings, rng, engine) ==
  LET shuffled == shuffleSort(engine, settings.palette, rng)
      generator == choice(shuffled.seed, difficultyMap[settings.difficulty].generators)
      complexity == int(generator.seed,
                        difficultyMap[settings.difficulty].complexityRange[1],
                        difficultyMap[settings.difficulty].complexityRange[2])
  IN  generateDraw(settings, generator, complexity,
                   [a |-> shuffled.a, seed |-> complexity.seed])

generate(settings, rng, engine) ==
  generateComplexity(settings, engine,
                     choice(rng, difficultyMap[settings.difficulty].generators))

----------------------------------------------------------------------------
(* Inputs *)

Digits == 48..57

(* Seed strings, as sequences of UTF-16 code units: the empty string, the  *)
(* decimal strings of one and two digits, "abc", and a 13-digit            *)
(* Date.now().toString() ("1730548800000"), whose hash wraps around.       *)
Seeds ==
  {<<>>} \cup {<<a>> : a \in Digits} \cup {<<a, b>> : a, b \in Digits}
    \cup {<<97, 98, 99>>, <<49, 55, 51, 48, 53, 52, 56, 56, 48, 48, 48, 48, 48>>}

Palettes == {<<>>, <<"#E53935", "#1E88E5">>, <<"#E53935", "#1E88E5", "#FDD835">>}

CanvasSizes == {400, 0}

DifficultyNames == {"beginner", "intermediate", "advanced"}

Settings ==
  [seed : Seeds, canvasSize : CanvasSizes, difficulty : DifficultyNames, palette : Palettes]

(* The settings two objects are built from when they are compared: seeds   *)
(* "7" and "abc", both canvas sizes, the lowest and the highest tier, one   *)
(* palette in both orders and a longer one.                                *)
PairSettings ==
  [seed : {<<55>>, <<97, 98, 99>>}, canvasSize : CanvasSizes,
   difficulty : {"beginner", "advanced"},
   palette : {<<"#E53935", "#1E88E5">>, <<"#1E88E5", "#E53935">>,
              <<"#E53935", "#1E88E5", "#FDD835">>}]

(* MandalaGenerator objects the callers hold *)
GenIds == {"g1", "g2"}

(* generate() calls followed on one object *)
MaxCalls == 2

(* Arguments of a direct DrawFn call *)
MaxComplexity == 7

MaxNegative == 3

Complexities == (0 - MaxNegative)..MaxComplexity

DrawPalettes ==
  {<<"#E53935">>, <<"#E53935", "#1E88E5">>, <<"#E53935", "#1E88E5", "#FDD835">>}

IdStarts == {0, 5}

(* The arrays handed to a DrawFn: empty, or holding one earlier region *)
EarlierRegions ==
  {<<>>, <<RegionSpec(RegionId(4), "#43A047", << <<"M", FInt(0), FInt(0)>>, <<"Z">> >>)>>}

EarlierSvg(regions) ==
  [i \in 1..Len(regions) |->
     ShapeNode("path", regions[i].id, << <<"d", regions[i].path>> >>, regions[i].color)]

----------------------------------------------------------------------------
(* The memory game: the component MandalaMemoryTrainer.  A record `a`      *)
(* holds the component: its useState values, the timer ref, the            *)
(* animation-frame callbacks and the timeouts that are pending, the clock, *)
(* and `view`, the values the handlers of the latest render closed over.   *)
(* Times are in seconds.                                                   *)

PALETTES ==
  [Primary |-> <<"#E53935", "#1E88E5", "#FDD835", "#43A047", "#FF5722", "#E91E63",
                 "#9C27B0", "#FF9800">>,
   Vibrant |-> <<"#FF4444", "#44FF44", "#4444FF", "#FFAA00", "#FF44AA", "#44AAFF",
                 "#AAFF44", "#AA44FF">>,
   Pastel  |-> <<"#FFB3BA", "#BAFFC9", "#BAE1FF", "#FFFFBA", "#FFDFBA", "#E0BBE4",
                 "#D4F1F4", "#B4E7CE">>,
   Bright  |-> <<"#FF0000", "#00FF00", "#0000FF", "#FF8000", "#FF0080", "#8000FF",
                 "#00FF80", "#80FF00">>]

(* array.slice(0, n) *)
Slice(array, n) == SubSeq(array, 1, IF n < Len(array) THEN n ELSE Len(array))

Max(x, y) == IF x >= y THEN x ELSE y

(* Date.now().toString(): the string of a clock reading, kept as the       *)
(* reading in a one-element sequence; '' is the empty sequence.            *)
SeedOf(now) == <<now>>

(* What new MandalaGenerator(settings).generate() returns: a function of   *)
(* the settings alone, kept as the settings it was made from.              *)
MandalaOf(settings) == [settings |-> settings]

(* The values the handlers made by a render read from their closure *)
Closure(a) ==
  [phase |-> a.gameState.phase, round |-> a.gameState.round,
   exposureTime |-> a.gameSettings.exposureTime,
   roundCount |-> a.gameSettings.roundCount,
   colorCount |-> a.gameSettings.colorCount,
   difficulty |-> a.gameSettings.difficulty,
   palette |-> a.gameSettings.palette]

(* The component after its first render and the effect that generates the  *)
(* first mandala                                                           *)
InitialApp ==
  [mounted |-> TRUE,
   now |-> 0,
   gameSettings |-> [exposureTime |-> 15, roundCount |-> 10, showCountdown |-> TRUE,
                     difficulty |-> "beginner", colorCount |-> 6,
                     palette |-> Slice(PALETTES.Primary, 6)],
   mandalaSettings |-> [difficulty |-> "beginner", palette |-> Slice(PALETTES.Primary, 6),
                        seed |-> SeedOf(0), canvasSize |-> 400],
   gameState |-> [phase |-> "idle", round |-> 0, score |-> 0, currentSeed |-> <<>>,
                  timeRemaining |-> 0],
   currentMandala |-> MandalaOf([difficulty |-> "beginner",
                                 palette |-> Slice(PALETTES.Primary, 6),
                                 seed |-> SeedOf(0), canvasSize |-> 400]),
   timerRef |-> 0,
   frames |-> <<>>,
   timeouts |-> 0,
   view |-> [phase |-> "idle", round |-> 0, exposureTime |-> 15, roundCount |-> 10,
             colorCount |-> 6, difficulty |-> "beginner",
             palette |-> Slice(PALETTES.Primary, 6)],
   handled |-> 0]

(* A re-render: the effect on [mandalaSettings] generates the mandala, and *)
(* the handlers are made anew over the current values.                     *)
Render(a) ==
  [a EXCEPT !.currentMandala = MandalaOf(a.mandalaSettings),
            !.view = Closure(a),
            !.handled = 0]

(* The handle requestAnimationFrame returns: one no pending callback has *)
FreeHandle(frames) ==
  CHOOSE n \in 1..(Len(frames) + 1) :
    /\ \A i \in 1..Len(frames) : frames[i].id # n
    /\ \A m \in 1..(n - 1) : \E i \in 1..Len(frames) : frames[i].id = m

(* startTimer(): a chain of tick callbacks over startTime and duration *)
startTimer(a) ==
  [a EXCEPT !.frames = Append(@, [id |-> FreeHandle(a.frames), startTime |-> a.now,
                                  duration |-> a.view.exposureTime]),
            !.timerRef = FreeHandle(a.frames)]

startGame(a) ==
  startTimer([a EXCEPT !.mandalaSettings.seed = SeedOf(a.now),
                       !.gameState = [phase |-> "showing", round |-> 1, score |-> 0,
                                      currentSeed |-> SeedOf(a.now),
                                      timeRemaining |-> a.view.exposureTime]])

(* nextRound() ending the game only after a round beyond roundCount *)
nextRoundOneMore(a) ==
  IF a.view.round > a.view.roundCount
    THEN [a EXCEPT !.gameState.phase = "finished"]
    ELSE startTimer([a EXCEPT !.mandalaSettings.seed = SeedOf(a.now),
                              !.gameState.phase = "showing",
                              !.gameState.round = @ + 1,
                              !.gameState.currentSeed = SeedOf(a.now),
                              !.gameState.timeRemaining = a.view.exposureTime])

(* nextRound(): the test reads the round of the render, the update the     *)
(* latest round                                                            *)
nextRound(a) ==
  IF a.view.round >= a.view.roundCount
    THEN [a EXCEPT !.gameState.phase = "finished"]
    ELSE startTimer([a EXCEPT !.mandalaSettings.seed = SeedOf(a.now),
                              !.gameState.phase = "showing",
                              !.gameState.round = @ + 1,
                              !.gameState.currentSeed = SeedOf(a.now),
                              !.gameState.timeRemaining = a.view.exposureTime])

(* The frames left when callback i has run and asked for no other *)
Without(frames, i) == SubSeq(frames, 1, i - 1) \o SubSeq(frames, i + 1, Len(frames))

(* Math.max(0, duration - elapsed) *)
Remaining(frame, now) == Max(0, frame.duration - (now - frame.startTime))

(* tick() that stops only below zero *)
tickBelowZero(a, i) ==
  [a EXCEPT !.gameState.timeRemaining =
              IF a.mounted THEN Remaining(a.frames[i], a.now) ELSE @,
            !.gameState.phase =
              IF a.mounted /\ Remaining(a.frames[i], a.now) < 0 THEN "waiting" ELSE @,
            !.frames = IF Remaining(a.frames[i], a.now) < 0 THEN Without(@, i) ELSE @,
            !.timerRef = IF Remaining(a.frames[i], a.now) < 0
                           THEN (IF @ = a.frames[i].id THEN 0 ELSE @)
                           ELSE a.frames[i].id]

(* tick() of the chain whose callback is pending as frames[i].  The state  *)
(* setters do nothing once the component is unmounted.  A timer ref left   *)
(* with the handle of a callback that has run is kept as 0: cancelling it  *)
(* cancels nothing.                                                        *)
tick(a, i) ==
  [a EXCEPT !.gameState.timeRemaining =
              IF a.mounted THEN Remaining(a.frames[i], a.now) ELSE @,
            !.gameState.phase =
              IF a.mounted /\ Remaining(a.frames[i], a.now) <= 0 THEN "waiting" ELSE @,
            !.frames = IF Remaining(a.frames[i], a.now) <= 0 THEN Without(@, i) ELSE @,
            !.timerRef = IF Remaining(a.frames[i], a.now) <= 0
                           THEN (IF @ = a.frames[i].id THEN 0 ELSE @)
                           ELSE a.frames[i].id]

(* updateDifficulty(difficulty), its setTimeout left pending *)
updateDifficulty(a, difficulty) ==
  [a EXCEPT !.mandalaSettings.difficulty = difficulty,
            !.gameSettings.difficulty = difficulty,
            !.timeouts = @ + 1]

(* updatePalette(paletteName), its setTimeout left pending *)
updatePalette(a, paletteName) ==
  [a EXCEPT !.mandalaSettings.palette = Slice(PALETTES[paletteName], a.view.colorCount),
            !.gameSettings.palette = Slice(PALETTES[paletteName], a.view.colorCount),
            !.timeouts = @ + 1]

(* The setTimeout callback of updateDifficulty and updatePalette, and the  *)
(* onClick of New Design                                                   *)
reseed(a) == [a EXCEPT !.mandalaSettings.seed = SeedOf(a.now)]

timeoutFires(a) == [(IF a.mounted THEN reseed(a) ELSE a) EXCEPT !.timeouts = @ - 1]

(* onChange of the Exposure Time select *)
setExposureTime(a, seconds) == [a EXCEPT !.gameSettings.exposureTime = seconds]

(* onClick of Show Original Image, Hide Original and Play Again *)
showOriginal(a) == [a EXCEPT !.gameState.phase = "revealing"]

hideOriginal(a) == [a EXCEPT !.gameState.phase = "waiting"]

playAgain(a) == [a EXCEPT !.gameState.phase = "idle", !.gameState.round = 0]

(* The cleanup of the timer effect: cancelAnimationFrame(timerRef.current) *)
unmount(a) ==
  [a EXCEPT !.mounted = FALSE,
            !.frames = SelectSeq(@, LAMBDA frame : frame.id # a.timerRef)]

(* The program subtracts clock readings from one another and compares the  *)
(* seed strings made from them for identity, nothing else: the readings    *)
(* are kept relative to the start of the current round (the reading in     *)
(* currentSeed), and a start time older than its chain's duration as if it *)
(* were exactly that old.                                                  *)
ShiftSeed(seed, by) == IF seed = <<>> THEN seed ELSE SeedOf(seed[1] - by)

ShiftBy(a, by) ==
  [a EXCEPT !.now = @ - by,
            !.mandalaSettings.seed = ShiftSeed(@, by),
            !.gameState.currentSeed = ShiftSeed(@, by),
            !.currentMandala.settings.seed = ShiftSeed(@, by),
            !.frames = [i \in 1..Len(a.frames) |->
                          [a.frames[i] EXCEPT
                             !.startTime = Max(@ - by, (a.now - by) - a.frames[i].duration)]]]

SinceRound(a) ==
  IF a.gameState.currentSeed \in {<<>>, SeedOf(0)}
    THEN a
    ELSE ShiftBy(a, a.gameState.currentSeed[1])

(* What the user can pick in the selects, and how far the clock is followed *)
UiDifficulties == {"beginner", "advanced"}

UiPalettes == {"Primary", "Vibrant"}

ExposureTimes == {5, 10, 15}

MaxClock == 15

MaxTimeouts == 1

MaxFrames == 2

MaxStale == 2

----------------------------------------------------------------------------
(* State *)

VARIABLES
  engine,   \* the host's sort, fixed for a run of the program
  gen,      \* the MandalaGenerator objects: settings, rng and what generate() produced
  draw,     \* the latest direct DrawFn call: its arguments and what it left behind
  prevDraw, \* the DrawFn call before it, when made with the same arguments but complexity
  rand,     \* a SeededRandom object used on its own: its seed and its latest call
  app       \* the mounted MandalaMemoryTrainer component

vars == <<engine, gen, draw, prevDraw, rand, app>>

NoGenerator ==
  [live |-> FALSE,
   settings |-> [seed |-> <<>>, canvasSize |-> 0, difficulty |-> "beginner", palette |-> <<>>],
   rng |-> Word(0, 0), calls |-> <<>>]

NoDraw ==
  [called |-> FALSE, generator |-> "concentricCircles", canvasSize |-> 0, palette |-> <<>>,
   regions |-> <<>>, svg |-> <<>>, idStart |-> 0, rng |-> Word(0, 0), complexity |-> 0,
   drawn |-> Drawn(<<>>, <<>>, 0, Word(0, 0))]

(* No SeededRandom built yet; `last` records the latest call on the object: *)
(* its arguments, the seed before it, and what it gave back.                *)
NoCall ==
  [op |-> "none", min |-> 0, max |-> 0, arr |-> <<>>, before |-> Word(0, 0),
   num |-> 0, val |-> 0, threw |-> FALSE]

NoRandom == [live |-> FALSE, str |-> <<>>, seed |-> Word(0, 0), draws |-> 0, last |-> NoCall]

Init ==
  /\ engine \in Engines
  /\ gen = [g \in GenIds |-> NoGenerator]
  /\ draw = NoDraw
  /\ prevDraw = NoDraw
  /\ rand = NoRandom
  /\ app = InitialApp

(* new MandalaGenerator(settings) *)
NewGenerator(g, settings) ==
  /\ ~gen[g].live
  /\ gen' = [gen EXCEPT ![g] = [live |-> TRUE, settings |-> settings,
                                rng |-> hash(settings.seed), calls |-> <<>>]]
  /\ UNCHANGED <<engine, draw, prevDraw, rand, app>>

(* The object after generate() returned or threw `call` *)
AfterGenerate(obj, call) ==
  [obj EXCEPT !.rng = call.rng,
              !.calls = Append(@, [threw |-> call.threw,
                                   generator |-> call.generator,
                                   complexity |-> call.complexity,
                                   shuffledPalette |-> call.shuffledPalette,
                                   coloredSvg |-> call.coloredSvg,
                                   outlineSvg |-> call.outlineSvg,
                                   regions |-> call.regions])]

(* Generate drawing from one random source shared by every object *)
GenerateSharedRng(g) ==
  /\ gen[g].live
  /\ Len(gen[g].calls) < MaxCalls
  /\ gen' = [gen EXCEPT ![g] = AfterGenerate(@, generate(@.settings, gen["g1"].rng, engine))]
  /\ UNCHANGED <<engine, draw, prevDraw, rand, app>>

(* g.generate() *)
Generate(g) ==
  /\ gen[g].live
  /\ Len(gen[g].calls) < MaxCalls
  /\ gen' = [gen EXCEPT ![g] = AfterGenerate(@, generate(@.settings, @.rng, engine))]
  /\ UNCHANGED <<engine, draw, prevDraw, rand, app>>

(* One program: a caller that builds a generator and calls generate() *)
Next ==
  \/ \E settings \in Settings : NewGenerator("g1", settings)
  \/ Generate("g1")

Spec == Init /\ [][Next]_vars

(* Two generators side by side *)
NextPair ==
  \/ \E g \in GenIds, settings \in PairSettings : NewGenerator(g, settings)
  \/ \E g \in GenIds : Generate(g)

SpecPair == Init /\ [][NextPair]_vars

(* Two callers, each with its own MandalaGenerator and settings, whose     *)
(* generate() calls follow one another in any order.  generate() is        *)
(* synchronous: a call runs to its return before the other caller's next   *)
(* call starts.                                                            *)
ReentrantSettings ==
  [seed : {<<55>>, <<52, 50>>}, canvasSize : {400},
   difficulty : {"beginner", "advanced"},
   palette : {<<"#E53935", "#1E88E5">>, <<"#E53935", "#1E88E5", "#FDD835">>}]

NextReentrant ==
  \/ \E g \in GenIds, settings \in ReentrantSettings : NewGenerator(g, settings)
  \/ \E g \in GenIds : Generate(g)

SpecReentrant == Init /\ [][NextReentrant]_vars

(* A DrawFn called directly *)
DrawCall(generator, canvasSize, palette, regions, idStart, rng, complexity) ==
  [called |-> TRUE, generator |-> generator, canvasSize |-> canvasSize, palette |-> palette,
   regions |-> regions, svg |-> EarlierSvg(regions), idStart |-> idStart, rng |-> rng,
   complexity |-> complexity,
   drawn |-> CallGenerator(generator, Frac(canvasSize, 2), FInt(canvasSize), palette,
                           regions, EarlierSvg(regions), idStart, rng, complexity)]

Draw(generator, canvasSize, palette, regions, idStart, complexity) ==
  /\ ~draw.called
  /\ draw' = DrawCall(generator, canvasSize, palette, regions, idStart, hash(<<>>), complexity)
  /\ UNCHANGED <<engine, gen, prevDraw, rand, app>>

(* The same call again with another complexity *)
Redraw(complexity) ==
  /\ draw.called
  /\ ~prevDraw.called
  /\ prevDraw' = draw
  /\ draw' = DrawCall(draw.generator, draw.canvasSize, draw.palette, draw.regions,
                      draw.idStart, draw.rng, complexity)
  /\ UNCHANGED <<engine, gen, rand, app>>

InitPrim ==
  /\ engine = "insertion"
  /\ gen = [g \in GenIds |-> NoGenerator]
  /\ draw = NoDraw
  /\ prevDraw = NoDraw
  /\ rand = NoRandom
  /\ app = InitialApp

NextPrim ==
  \/ \E generator \in GeneratorNames, palette \in DrawPalettes, regions \in EarlierRegions,
        idStart \in IdStarts, complexity \in Complexities :
       Draw(generator, 400, palette, regions, idStart, complexity)
  \/ \E complexity \in Complexities : Redraw(complexity)

SpecPrim == InitPrim /\ [][NextPrim]_vars

(* A SeededRandom used directly *)

(* "GydZG_", whose fold ends on -2^31 *)
MinValueSeed == <<71, 121, 100, 90, 71, 95>>

RandomSeeds == Seeds \cup {MinValueSeed}

(* Bounds handed to int, in either order *)
MaxBound == 3

IntBounds == (0 - MaxBound)..MaxBound

ChoiceArrays == {<<>>, <<"x">>, <<"a", "b">>, <<"a", "b", "c">>}

(* Calls followed on one SeededRandom *)
MaxDraws == 3

(* new SeededRandom(str) *)
NewSeededRandom(str) ==
  /\ ~rand.live
  /\ rand' = [live |-> TRUE, str |-> str, seed |-> hash(str), draws |-> 0, last |-> NoCall]
  /\ UNCHANGED <<engine, gen, draw, prevDraw, app>>

(* The object after a call that advanced the seed to `seed` *)
AfterCall(obj, seed, call) ==
  [obj EXCEPT !.seed = seed, !.draws = @ + 1, !.last = call]

(* rng.random() *)
CallRandom ==
  /\ rand.live
  /\ rand.draws < MaxDraws
  /\ rand' = AfterCall(rand, random(rand.seed).seed,
                       [NoCall EXCEPT !.op = "random", !.before = rand.seed,
                                      !.num = random(rand.seed).num])
  /\ UNCHANGED <<engine, gen, draw, prevDraw, app>>

(* rng.int(min, max): no statement of int throws *)
CallInt(min, max) ==
  /\ rand.live
  /\ rand.draws < MaxDraws
  /\ rand' = AfterCall(rand, int(rand.seed, min, max).seed,
                       [NoCall EXCEPT !.op = "int", !.min = min, !.max = max,
                                      !.before = rand.seed,
                                      !.val = int(rand.seed, min, max).val])
  /\ UNCHANGED <<engine, gen, draw, prevDraw, app>>

(* rng.choice(arr): reading past the end of an array does not throw *)
CallChoice(arr) ==
  /\ rand.live
  /\ rand.draws < MaxDraws
  /\ rand' = AfterCall(rand, choice(rand.seed, arr).seed,
                       [NoCall EXCEPT !.op = "choice", !.arr = arr, !.before = rand.seed,
                                      !.val = choice(rand.seed, arr).val])
  /\ UNCHANGED <<engine, gen, draw, prevDraw, app>>

NextRng ==
  \/ \E str \in RandomSeeds : NewSeededRandom(str)
  \/ CallRandom
  \/ \E min, max \in IntBounds : CallInt(min, max)
  \/ \E arr \in ChoiceArrays : CallChoice(arr)

SpecRng == InitPrim /\ [][NextRng]_vars

(* The memory game.  An event is handled by the handler the latest render  *)
(* made; with `commit` React re-renders before anything else happens, as   *)
(* it does between two events the browser dispatches; without it the       *)
(* re-render is a step of its own (Rerender), and until then at most        *)
(* MaxStale events reach handlers of the outdated render.                  *)
Handled(after, commit) ==
  /\ app' = SinceRound(IF commit THEN Render(after)
                                 ELSE [after EXCEPT !.handled = @ + 1])
  /\ UNCHANGED <<engine, gen, draw, prevDraw, rand>>

CanHandle(commit) == app.mounted /\ (commit \/ app.handled < MaxStale)

(* Start Memory Game, rendered in phase 'idle' *)
ClickStart(commit) ==
  /\ CanHandle(commit)
  /\ app.view.phase = "idle"
  /\ Len(app.frames) < MaxFrames
  /\ Handled(startGame(app), commit)

(* Next Round, rendered in the phases 'waiting' and 'revealing' *)
ClickNextRound(commit) ==
  /\ CanHandle(commit)
  /\ app.view.phase \in {"waiting", "revealing"}
  /\ Len(app.frames) < MaxFrames
  /\ Handled(nextRound(app), commit)

ClickShowOriginal(commit) ==
  /\ CanHandle(commit)
  /\ app.view.phase = "waiting"
  /\ Handled(showOriginal(app), commit)

ClickHideOriginal(commit) ==
  /\ CanHandle(commit)
  /\ app.view.phase = "revealing"
  /\ Handled(hideOriginal(app), commit)

ClickPlayAgain(commit) ==
  /\ CanHandle(commit)
  /\ app.view.phase = "finished"
  /\ Handled(playAgain(app), commit)

(* The settings panel is rendered in every phase *)
ClickNewDesign(commit) ==
  /\ CanHandle(commit)
  /\ Handled(reseed(app), commit)

ChangeDifficulty(difficulty, commit) ==
  /\ CanHandle(commit)
  /\ difficulty # app.view.difficulty
  /\ app.timeouts < MaxTimeouts
  /\ Handled(updateDifficulty(app, difficulty), commit)

ChangePalette(paletteName, commit) ==
  /\ CanHandle(commit)
  /\ Slice(PALETTES[paletteName], app.view.colorCount) # app.view.palette
  /\ app.timeouts < MaxTimeouts
  /\ Handled(updatePalette(app, paletteName), commit)

ChangeExposureTime(seconds, commit) ==
  /\ CanHandle(commit)
  /\ seconds # app.view.exposureTime
  /\ Handled(setExposureTime(app, seconds), commit)

(* A pending setTimeout callback runs *)
Timeout ==
  /\ app.timeouts > 0
  /\ app' = SinceRound(Render(timeoutFires(app)))
  /\ UNCHANGED <<engine, gen, draw, prevDraw, rand>>

(* A pending animation-frame callback runs *)
Tick(commit) ==
  /\ \E i \in 1..Len(app.frames) :
       app' = SinceRound(IF commit /\ app.mounted THEN Render(tick(app, i)) ELSE tick(app, i))
  /\ UNCHANGED <<engine, gen, draw, prevDraw, rand>>

(* The clock moves on *)
AdvanceClock ==
  /\ app.now + 5 <= MaxClock
  /\ app' = [app EXCEPT !.now = @ + 5]
  /\ UNCHANGED <<engine, gen, draw, prevDraw, rand>>

Unmount ==
  /\ app.mounted
  /\ app' = unmount(app)
  /\ UNCHANGED <<engine, gen, draw, prevDraw, rand>>

Rerender ==
  /\ app.mounted
  /\ Render(app) # app
  /\ app' = Render(app)
  /\ UNCHANGED <<engine, gen, draw, prevDraw, rand>>

(* The game as the browser drives it: every event is followed by its       *)
(* re-render before the next one is dispatched.                            *)
NextGame ==
  \/ ClickStart(TRUE)
  \/ ClickNextRound(TRUE)
  \/ ClickShowOriginal(TRUE)
  \/ ClickHideOriginal(TRUE)
  \/ ClickPlayAgain(TRUE)
  \/ ClickNewDesign(TRUE)
  \/ \E difficulty \in UiDifficulties : ChangeDifficulty(difficulty, TRUE)
  \/ \E paletteName \in UiPalettes : ChangePalette(paletteName, TRUE)
  \/ \E seconds \in ExposureTimes : ChangeExposureTime(seconds, TRUE)
  \/ Timeout
  \/ Tick(TRUE)
  \/ AdvanceClock
  \/ Unmount

SpecGame == InitPrim /\ [][NextGame]_vars

(* The countdown: the game with the controls that reach gameState, the    *)
(* exposure time or the timer (difficulty and palette feed the mandala     *)
(* alone), animation frames that keep firing and a clock that moves.       *)
NextCountdown ==
  \/ ClickStart(TRUE)
  \/ ClickNextRound(TRUE)
  \/ ClickShowOriginal(TRUE)
  \/ ClickHideOriginal(TRUE)
  \/ ClickPlayAgain(TRUE)
  \/ ClickNewDesign(TRUE)
  \/ \E seconds \in ExposureTimes : ChangeExposureTime(seconds, TRUE)
  \/ Tick(TRUE)
  \/ AdvanceClock
  \/ Unmount

SpecCountdown ==
  InitPrim /\ [][NextCountdown]_vars /\ WF_vars(Tick(TRUE)) /\ WF_vars(AdvanceClock)

(* The game buttons reached by events that are handled before the          *)
(* component re-renders, as two clicks dispatched in one task are.         *)
NextStale ==
  \/ ClickStart(FALSE)
  \/ ClickNextRound(FALSE)
  \/ ClickShowOriginal(FALSE)
  \/ ClickHideOriginal(FALSE)
  \/ ClickPlayAgain(FALSE)
  \/ Rerender
  \/ Tick(FALSE)
  \/ AdvanceClock
  \/ Unmount

SpecGameStale == InitPrim /\ [][NextStale]_vars

----------------------------------------------------------------------------
(* Properties *)

(* The generate() calls of g that returned *)
Returned(g) == {k \in 1..Len(gen[g].calls) : ~gen[g].calls[k].threw}

AttrNames(node) == {node.attrs[j][1] : j \in 1..Len(node.attrs)}

StyleAttrs == {"fill", "stroke"}

(* Two documents with the same elements in the same order, the same        *)
(* attributes on each, and the same value for every attribute but fill and *)
(* stroke.                                                                 *)
SameButStyle(c, o) ==
  /\ o.root = c.root
  /\ Len(o.nodes) = Len(c.nodes)
  /\ \A i \in 1..Len(c.nodes) :
       /\ o.nodes[i].tag = c.nodes[i].tag
       /\ Len(o.nodes[i].attrs) = Len(c.nodes[i].attrs)
       /\ \A j \in 1..Len(c.nodes[i].attrs) :
            /\ o.nodes[i].attrs[j][1] = c.nodes[i].attrs[j][1]
            /\ c.nodes[i].attrs[j][1] \notin StyleAttrs
                 => o.nodes[i].attrs[j][2] = c.nodes[i].attrs[j][2]

(* C1: in every result generate() returns, the outline image has the same  *)
(* shape nodes as the colored image, in the same order, with the same ids  *)
(* and geometry attributes; only fill and stroke values differ.            *)
OutlineSameGeometry ==
  \A g \in GenIds : \A k \in Returned(g) :
    SameButStyle(gen[g].calls[k].coloredSvg, gen[g].calls[k].outlineSvg)

(* A result with several shapes whose outline differs from the colored image *)
OutlineSameGeometryWitness ==
  \E g \in GenIds : \E k \in Returned(g) :
    /\ Len(gen[g].calls[k].coloredSvg.nodes) >= 2
    /\ gen[g].calls[k].outlineSvg.nodes # gen[g].calls[k].coloredSvg.nodes

(* C2: in every outline image returned, every shape node has fill "none"   *)
(* and stroke "#000": no palette colour and no "#222" is left.             *)
OutlineStyle ==
  \A g \in GenIds : \A k \in Returned(g) :
    \A i \in 1..Len(gen[g].calls[k].outlineSvg.nodes) :
      LET node == gen[g].calls[k].outlineSvg.nodes[i]
      IN  /\ StyleAttrs \subseteq AttrNames(node)
          /\ \A j \in 1..Len(node.attrs) :
               /\ node.attrs[j][1] = "fill" => node.attrs[j][2] = "none"
               /\ node.attrs[j][1] = "stroke" => node.attrs[j][2] = "#000"

(* A result drawn with palette colours, whose colored image has a filled   *)
(* node with the neutral stroke                                            *)
OutlineStyleWitness ==
  \E g \in GenIds : \E k \in Returned(g) :
    /\ gen[g].settings.palette # <<>>
    /\ \E i \in 1..Len(gen[g].calls[k].coloredSvg.nodes) :
         LET node == gen[g].calls[k].coloredSvg.nodes[i]
         IN  \E j, l \in 1..Len(node.attrs) :
               /\ node.attrs[j][1] = "fill"
               /\ node.attrs[j][2] = gen[g].settings.palette[1]
               /\ node.attrs[l][1] = "stroke"
               /\ node.attrs[l][2] = "#222"

----------------------------------------------------------------------------
(* What a generate() call handed back to its caller *)
Result(call) ==
  [regions |-> call.regions, coloredSvg |-> call.coloredSvg, outlineSvg |-> call.outlineSvg]

(* C3: two MandalaGenerator objects built from equal settings return       *)
(* identical region lists, colored images and outline images: their first  *)
(* calls agree, and so does every later pair of calls.                     *)
Determinism ==
  \A g, h \in GenIds :
    (gen[g].live /\ gen[h].live /\ gen[g].settings = gen[h].settings) =>
      \A k \in Returned(g) \cap Returned(h) :
        Result(gen[g].calls[k]) = Result(gen[h].calls[k])

(* Two objects with equal settings that have both drawn something *)
DeterminismWitness ==
  /\ gen["g1"].live /\ gen["g2"].live
  /\ gen["g1"].settings = gen["g2"].settings
  /\ 1 \in Returned("g1") \cap Returned("g2")
  /\ Len(gen["g1"].calls[1].regions) >= 2
  /\ Len(gen["g2"].calls) = MaxCalls

(* C4: calling generate() a second time on the same object returns the     *)
(* same regions and images as the first call.                              *)
SecondCallSameAsFirst ==
  \A g \in GenIds :
    {1, 2} \subseteq Returned(g) => Result(gen[g].calls[2]) = Result(gen[g].calls[1])

(* The numeric suffixes of the ids of a region list, in list order *)
IdSuffixes(regions) == [i \in 1..Len(regions) |-> regions[i].id[2]]

StrictlyIncreasing(ns) == \A i, j \in 1..Len(ns) : i < j => ns[i] < ns[j]

(* C5: in every region list generate() returns, the region ids are         *)
(* pairwise distinct and their numeric suffixes strictly increase in list  *)
(* order.                                                                  *)
RegionIdsIncreasing ==
  \A g \in GenIds : \A k \in Returned(g) :
    /\ StrictlyIncreasing(IdSuffixes(gen[g].calls[k].regions))
    /\ \A i, j \in 1..Len(gen[g].calls[k].regions) :
         i # j => gen[g].calls[k].regions[i].id # gen[g].calls[k].regions[j].id

(* A returned region list of at least three regions *)
RegionIdsIncreasingWitness ==
  \E g \in GenIds : \E k \in Returned(g) : Len(gen[g].calls[k].regions) >= 3

(* The regions a direct DrawFn call appended to the array it was handed *)
Appended(d) == SubSeq(d.drawn.regions, Len(d.regions) + 1, Len(d.drawn.regions))

(* C6: the k-th region a primitive appends (k from 0) has the colour       *)
(* P[k mod length(P)] of the non-empty palette P it was passed.            *)
PaletteCycling ==
  (draw.called /\ Len(draw.palette) > 0) =>
    \A k \in 0..(Len(Appended(draw)) - 1) :
      Appended(draw)[k + 1].color = draw.palette[(k % Len(draw.palette)) + 1]

(* A primitive that appended more regions than its palette has entries,    *)
(* with a palette of several colours                                       *)
PaletteCyclingWitness ==
  /\ draw.called
  /\ Len(draw.palette) >= 2
  /\ Len(Appended(draw)) > Len(draw.palette)

Range(f) == {f[i] : i \in DOMAIN f}

(* C7: with a non-empty palette, every region colour in the returned list  *)
(* is one of the strings of the supplied palette.                          *)
ColorsFromPalette ==
  \A g \in GenIds : \A k \in Returned(g) :
    gen[g].settings.palette # <<>> =>
      \A i \in 1..Len(gen[g].calls[k].regions) :
        gen[g].calls[k].regions[i].color \in Range(gen[g].settings.palette)

(* A result with more regions than there are colours in its palette *)
ColorsFromPaletteWitness ==
  \E g \in GenIds : \E k \in Returned(g) :
    /\ gen[g].settings.palette # <<>>
    /\ Len(gen[g].calls[k].regions) > Len(gen[g].settings.palette)

(* C8: with the same centre, size and palette, a primitive appends at      *)
(* complexity c2 at least as many regions as at any complexity c1 <= c2.   *)
ComplexityMonotone ==
  (prevDraw.called /\ draw.called /\ prevDraw.complexity <= draw.complexity) =>
    Len(Appended(prevDraw)) <= Len(Appended(draw))

(* The star pattern drawn at two complexities on either side of a step of  *)
(* its layer count                                                         *)
ComplexityMonotoneWitness ==
  /\ prevDraw.called /\ draw.called
  /\ draw.generator = "starPattern"
  /\ prevDraw.complexity = 3 /\ draw.complexity = 4
  /\ Len(Appended(prevDraw)) < Len(Appended(draw))

(* C9: across beginner, intermediate, advanced both bounds of the          *)
(* complexity range are non-decreasing, each range has min <= max, each    *)
(* tier has at least one primitive, and each tier's primitives are among   *)
(* the next tier's, in the table every MandalaGenerator resolves its       *)
(* difficulty in.                                                          *)
TiersMonotone ==
  /\ \A t \in 1..Len(Difficulties) :
       LET cfg == difficultyMap[Difficulties[t]]
       IN  /\ cfg.complexityRange[1] <= cfg.complexityRange[2]
           /\ Len(cfg.generators) > 0
  /\ \A t \in 1..(Len(Difficulties) - 1) :
       LET lo == difficultyMap[Difficulties[t]]
           hi == difficultyMap[Difficulties[t + 1]]
       IN  /\ lo.complexityRange[1] <= hi.complexityRange[1]
           /\ lo.complexityRange[2] <= hi.complexityRange[2]
           /\ Range(lo.generators) \subseteq Range(hi.generators)

DifficultyTableMonotone == \A g \in GenIds : gen[g].live => TiersMonotone

(* An advanced generation that ran a primitive of the beginner tier *)
DifficultyTableMonotoneWitness ==
  \E g \in GenIds : \E k \in Returned(g) :
    /\ gen[g].settings.difficulty = "advanced"
    /\ gen[g].calls[k].generator \in Range(difficultyMap["beginner"].generators)

BeginnerExcluded ==
  {"starPattern", "petalFlower", "spiralPattern", "radialSegments", "wavePattern"}

(* C10: the primitive generate() invokes is in the difficulty's generator  *)
(* list and the complexity it passes is within the difficulty's range; a   *)
(* beginner generation never runs the star, petal, spiral, radial-segment  *)
(* or wave primitive and never uses a complexity above 2.                  *)
WithinDifficulty ==
  \A g \in GenIds : \A k \in 1..Len(gen[g].calls) :
    LET cfg == difficultyMap[gen[g].settings.difficulty]
        call == gen[g].calls[k]
    IN  /\ call.generator \in Range(cfg.generators)
        /\ call.complexity \in cfg.complexityRange[1]..cfg.complexityRange[2]
        /\ gen[g].settings.difficulty = "beginner" =>
             /\ call.generator \notin BeginnerExcluded
             /\ call.complexity <= 2

(* A beginner generation at the top of its range *)
WithinDifficultyWitness ==
  \E g \in GenIds : \E k \in 1..Len(gen[g].calls) :
    /\ gen[g].settings.difficulty = "beginner"
    /\ gen[g].calls[k].complexity = 2
    /\ gen[g].calls[k].generator = "crossPattern"

----------------------------------------------------------------------------
(* SeededRandom on its own *)

(* The value of a word below 2^31 *)
WordValue(w) == w.hi * Half + w.lo

(* (v * 9301 + 49297) mod 233280 with 9301 = 71 * 131 *)
NextState(v) == ((((v * 71) % Modulus) * 131) + 49297) % Modulus

(* C11: random() sets the state to (state * 9301 + 49297) mod 233280: once *)
(* a number has been drawn the state is an integer in 0..233279, and every *)
(* value random() returns, state / 233280, is at least 0 and below 1.      *)
RandomInUnitInterval ==
  (rand.live /\ rand.draws >= 1) =>
    /\ rand.seed.hi < 4
    /\ WordValue(rand.seed) \in 0..(Modulus - 1)
    /\ WordValue(rand.seed) = NextState(WordMod(rand.last.before))
    /\ rand.last.op = "random" =>
         /\ rand.last.num = WordValue(rand.seed)
         /\ 0 <= rand.last.num /\ rand.last.num < Modulus

(* random() called first on a source whose seed state is 2^31, and called  *)
(* again after other draws                                                 *)
RandomInUnitIntervalWitness ==
  /\ rand.live
  /\ rand.last.op = "random"
  /\ \/ rand.draws = 1 /\ rand.last.before = Word(32768, 0)
     \/ rand.draws = MaxDraws /\ rand.str = MinValueSeed

(* C12: for min <= max, int(min, max) returns an integer r with            *)
(* min <= r <= max, and advances the source by exactly one draw.           *)
IntWithinBounds ==
  (rand.live /\ rand.last.op = "int" /\ rand.last.min <= rand.last.max) =>
    /\ rand.last.val \in rand.last.min..rand.last.max
    /\ WordValue(rand.seed) = NextState(WordMod(rand.last.before))

(* int(-2, 3) returning its upper bound *)
IntWithinBoundsWitness ==
  /\ rand.live
  /\ rand.last.op = "int"
  /\ rand.last.min = -2 /\ rand.last.max = 3
  /\ rand.last.val = 3

(* w * 31 modulo 2^32 *)
Mul31(w) ==
  LET l == w.lo * 31
  IN  Word((w.hi * 31 + l \div Half) % Half, l % Half)

(* hash = hash * 31 + charCode under 32-bit wraparound, over the characters *)
(* of str from the i-th on                                                  *)
RECURSIVE Fold31(_, _, _)
Fold31(str, i, h) ==
  IF h.hi \in 0..(Half - 1) /\ i > Len(str) THEN h
  ELSE Fold31(str, i + 1, Add32(Mul31(h), str[i]))

(* The absolute value of the word read as a signed 32-bit integer *)
Magnitude(w) == IF w.hi < 32768 THEN w ELSE Sub32(Word(0, 0), w)

(* C13: for every seed string the initial state is the absolute value of   *)
(* the fold hash = hash * 31 + charCode under 32-bit signed wraparound; the *)
(* empty string gives 0.                                                   *)
HashIsFold31 ==
  (rand.live /\ rand.draws = 0) =>
    /\ rand.seed = Magnitude(Fold31(rand.str, 1, Word(0, 0)))
    /\ rand.str = <<>> => rand.seed = Word(0, 0)

(* A source seeded from a 13-character string, whose fold wraps around *)
HashIsFold31Witness ==
  /\ rand.live /\ rand.draws = 0
  /\ Len(rand.str) = 13
  /\ rand.seed.hi > 0

(* C14: the state of the random source is a 32-bit signed integer: in      *)
(* 0..2^31-1 once seeded, and within the 32-bit signed range after every   *)
(* draw.                                                                   *)
StateIsInt32 == rand.live => rand.seed.hi < 32768

(* C15: choice called with an empty sequence fails and returns no value.   *)
ChoiceOfEmptyFails ==
  (rand.live /\ rand.last.op = "choice" /\ rand.last.arr = <<>>) => rand.last.threw

(* C16: for a non-empty sequence, choice returns one of its elements,      *)
(* never undefined; for a singleton <<x>> it returns x.                    *)
ChoiceFromItems ==
  (rand.live /\ rand.last.op = "choice" /\ rand.last.arr # <<>>) =>
    /\ \E i \in 0..(Len(rand.last.arr) - 1) : rand.last.val = rand.last.arr[i + 1]
    /\ Len(rand.last.arr) = 1 => rand.last.val = rand.last.arr[1]

(* choice returning the last of three items *)
ChoiceFromItemsWitness ==
  /\ rand.live
  /\ rand.last.op = "choice"
  /\ rand.last.arr = <<"a", "b", "c">>
  /\ rand.last.val = "c"

(* C17: generate() fails, producing no regions and no images, when         *)
(* canvasSize <= 0 or the palette is empty.                                *)
InvalidSettingsFail ==
  \A g \in GenIds : \A k \in 1..Len(gen[g].calls) :
    (gen[g].settings.canvasSize <= 0 \/ gen[g].settings.palette = <<>>) =>
      gen[g].calls[k].threw

(* C18: int(min, max) with min > max signals an error instead of returning *)
(* a number.                                                               *)
IntOutOfOrderFails ==
  (rand.live /\ rand.last.op = "int" /\ rand.last.min > rand.last.max) => rand.last.threw

----------------------------------------------------------------------------
(* Palette order *)

(* Settings that differ in the palette only, a palette of two colours given *)
(* in the two orders                                                        *)
PaletteSwapped(a, b) ==
  /\ a.seed = b.seed /\ a.canvasSize = b.canvasSize /\ a.difficulty = b.difficulty
  /\ Len(a.palette) = 2 /\ a.palette[1] # a.palette[2]
  /\ b.palette = <<a.palette[2], a.palette[1]>>

(* C19: two generations whose settings differ only in the order of a       *)
(* two-colour palette have the same region count, ids and boundary paths,  *)
(* and at every region index one has the colour the other has not.         *)
SwappedPaletteSwapsColors ==
  \A g, h \in GenIds :
    (gen[g].live /\ gen[h].live /\ PaletteSwapped(gen[g].settings, gen[h].settings)) =>
      \A k \in Returned(g) \cap Returned(h) :
        LET a == gen[g].calls[k].regions
            b == gen[h].calls[k].regions
        IN  /\ Len(a) = Len(b)
            /\ SameButStyle(gen[g].calls[k].coloredSvg, gen[h].calls[k].coloredSvg)
            /\ \A i \in 1..Len(a) :
                 /\ a[i].id = b[i].id
                 /\ a[i].path = b[i].path
                 /\ a[i].color \in Range(gen[g].settings.palette)
                 /\ b[i].color \in Range(gen[g].settings.palette)
                 /\ a[i].color # b[i].color

(* Two objects built with the two orders of a palette that have both drawn *)
(* several regions                                                         *)
SwappedPaletteSwapsColorsWitness ==
  /\ gen["g1"].live /\ gen["g2"].live
  /\ PaletteSwapped(gen["g1"].settings, gen["g2"].settings)
  /\ 1 \in Returned("g1") \cap Returned("g2")
  /\ Len(gen["g1"].calls[1].regions) >= 3

Count(f, x) == Cardinality({i \in DOMAIN f : f[i] = x})

IsPermutation(a, b) ==
  /\ Len(a) = Len(b)
  /\ \A x \in Range(a) \cup Range(b) : Count(a, x) = Count(b, x)

(* The state n draws after state v *)
RECURSIVE Advance(_, _)
Advance(v, n) == IF n = 0 THEN v ELSE Advance(NextState(v), n - 1)

(* C20: the working palette handed to the primitive is a permutation of    *)
(* settings.palette, the same for the same seed, difficulty and palette,   *)
(* and made with draws of the seeded random source only: one generate()    *)
(* draws twice for the primitive and the complexity and once per           *)
(* comparison of the sort, at most four times for three colours.           *)
ShuffleSeedDerived ==
  /\ \A g \in GenIds : \A k \in 1..Len(gen[g].calls) :
       IsPermutation(gen[g].calls[k].shuffledPalette, gen[g].settings.palette)
  /\ \A g, h \in GenIds :
       (/\ gen[g].live /\ gen[h].live
        /\ gen[g].settings.seed = gen[h].settings.seed
        /\ gen[g].settings.difficulty = gen[h].settings.difficulty
        /\ gen[g].settings.palette = gen[h].settings.palette) =>
         \A k \in 1..Len(gen[g].calls) \cap 1..Len(gen[h].calls) :
           gen[g].calls[k].shuffledPalette = gen[h].calls[k].shuffledPalette
  /\ \A g \in GenIds :
       (gen[g].live /\ Len(gen[g].calls) = 1) =>
         \E n \in 2..6 :
           WordValue(gen[g].rng) = Advance(WordMod(hash(gen[g].settings.seed)), n)

(* Two objects with the same seed, difficulty and three-colour palette but *)
(* another canvas size, whose working palette is not in the order given    *)
ShuffleSeedDerivedWitness ==
  /\ gen["g1"].live /\ gen["g2"].live
  /\ gen["g1"].settings.seed = gen["g2"].settings.seed
  /\ gen["g1"].settings.difficulty = gen["g2"].settings.difficulty
  /\ gen["g1"].settings.palette = gen["g2"].settings.palette
  /\ gen["g1"].settings.canvasSize # gen["g2"].settings.canvasSize
  /\ Len(gen["g1"].settings.palette) = 3
  /\ Len(gen["g1"].calls) >= 1 /\ Len(gen["g2"].calls) >= 1
  /\ gen["g1"].calls[1].shuffledPalette # gen["g1"].settings.palette

----------------------------------------------------------------------------
(* The object a caller holds after n generate() calls made with nothing    *)
(* else running: built from the settings, then called n times.             *)
RECURSIVE RunAlone(_, _, _)
RunAlone(settings, sortEngine, n) ==
  IF n = 0
    THEN [live |-> TRUE, settings |-> settings, rng |-> hash(settings.seed), calls |-> <<>>]
    ELSE LET obj == RunAlone(settings, sortEngine, n - 1)
         IN  AfterGenerate(obj, generate(settings, obj.rng, sortEngine))

(* C21: when the generate() calls of two callers, each with its own        *)
(* MandalaGenerator and settings, follow one another in any order, every   *)
(* call returns what it returns when its caller runs alone, and no call    *)
(* changes the settings (the palette array) a caller passed in.            *)
Reentrancy ==
  /\ [](\A g \in GenIds :
         gen[g].live => gen[g] = RunAlone(gen[g].settings, engine, Len(gen[g].calls)))
  /\ [][\A g \in GenIds : gen[g].live => gen'[g].settings = gen[g].settings]_vars

(* Two callers with different settings, one of which called generate()     *)
(* between two calls of the other                                          *)
ReentrancyWitness ==
  /\ gen["g1"].live /\ gen["g2"].live
  /\ gen["g1"].settings.seed # gen["g2"].settings.seed
  /\ gen["g1"].settings.palette # gen["g2"].settings.palette
  /\ Len(gen["g1"].calls) = MaxCalls
  /\ Len(gen["g2"].calls) >= 1
  /\ Len(gen["g1"].calls[1].regions) >= 2

----------------------------------------------------------------------------
(* C22: a primitive called with start counter idStart appends n >= 0       *)
(* regions with ids region-idStart .. region-(idStart+n-1) in that order,  *)
(* leaves the entries already in the region list and in the output list    *)
(* unchanged, and returns idStart + n.                                     *)
AppendsAndReturnsNextId ==
  draw.called =>
    LET n == Len(draw.drawn.regions) - Len(draw.regions)
    IN  /\ n >= 0
        /\ SubSeq(draw.drawn.regions, 1, Len(draw.regions)) = draw.regions
        /\ SubSeq(draw.drawn.svg, 1, Len(draw.svg)) = draw.svg
        /\ \A i \in 1..n :
             draw.drawn.regions[Len(draw.regions) + i].id = RegionId(draw.idStart + i - 1)
        /\ draw.drawn.ret = draw.idStart + n

(* The same for the complexities that leave every primitive's count at     *)
(* zero or more                                                            *)
AppendsAndReturnsNextIdFromZero ==
  (draw.called /\ draw.complexity >= 0) => AppendsAndReturnsNextId

----------------------------------------------------------------------------
AttrValues(node, name) ==
  {node.attrs[j][2] : j \in {i \in 1..Len(node.attrs) : node.attrs[i][1] = name}}

(* Node i of the output list is the picture of region i *)
NodesMatchRegions(nodes, regions) ==
  /\ Len(nodes) = Len(regions)
  /\ \A i \in 1..Len(regions) :
       /\ AttrValues(nodes[i], "id") = {regions[i].id}
       /\ AttrValues(nodes[i], "fill") = {regions[i].color}

(* C23: after a primitive call and after a generation, the shape-node list *)
(* and the region list have equal length, and the i-th node carries the id *)
(* of the i-th region and is filled with its colour.                       *)
OneNodePerRegion ==
  /\ draw.called => NodesMatchRegions(draw.drawn.svg, draw.drawn.regions)
  /\ \A g \in GenIds : \A k \in Returned(g) :
       NodesMatchRegions(gen[g].calls[k].coloredSvg.nodes, gen[g].calls[k].regions)

(* A generation that returned several regions in more than one colour *)
OneNodePerRegionWitness ==
  \E g \in GenIds : \E k \in Returned(g) :
    /\ Len(gen[g].calls[k].regions) >= 3
    /\ Len(gen[g].calls[k].coloredSvg.nodes) >= 3
    /\ gen[g].calls[k].regions[1].color # gen[g].calls[k].regions[2].color

----------------------------------------------------------------------------
(* `M x y`, then only `L x y`, `A ...` or `a ...` commands, then `Z` *)
ClosedContour(path) ==
  /\ Len(path) >= 3
  /\ path[1][1] = "M" /\ Len(path[1]) = 3
  /\ path[Len(path)] = <<"Z">>
  /\ \A i \in 2..(Len(path) - 1) : path[i][1] \in {"L", "A", "a"}

(* C24: the path of every region generate() returns starts with exactly    *)
(* one move-to at explicit coordinates, ends with a close-path, and has    *)
(* only line and arc commands in between.                                  *)
RegionPathsClosed ==
  \A g \in GenIds : \A k \in Returned(g) :
    \A i \in 1..Len(gen[g].calls[k].regions) :
      ClosedContour(gen[g].calls[k].regions[i].path)

(* A generation that returned a boundary of a move-to, four or more line   *)
(* commands and a close-path                                               *)
RegionPathsClosedWitness ==
  \E g \in GenIds : \E k \in Returned(g) :
    \E i \in 1..Len(gen[g].calls[k].regions) :
      LET path == gen[g].calls[k].regions[i].path
      IN  /\ Len(path) >= 6
          /\ \A j \in 2..(Len(path) - 1) : path[j][1] = "L"

----------------------------------------------------------------------------
(* The primitive and the complexity generate() selects on a new object     *)
(* built with `seed`: its first two draws.                                 *)
Selection(seed, difficulty) ==
  LET generator == choice(hash(seed), difficultyMap[difficulty].generators)
      complexity == int(generator.seed, difficultyMap[difficulty].complexityRange[1],
                        difficultyMap[difficulty].complexityRange[2])
  IN  <<generator.val, complexity.val>>

Selectable == [difficulty \in DifficultyNames |-> {Selection(seed, difficulty) : seed \in Seeds}]

(* C27: for the tier of any generator object, every primitive of the       *)
(* tier's list and every complexity of the tier's range is selected by     *)
(* generate() for some seed string.                                        *)
EverySelectionReachable ==
  \A g \in GenIds :
    gen[g].live =>
      LET tier == difficultyMap[gen[g].settings.difficulty]
      IN  \A name \in Range(tier.generators) :
            \A complexity \in tier.complexityRange[1]..tier.complexityRange[2] :
              <<name, complexity>> \in Selectable[gen[g].settings.difficulty]

(* A generation of the highest tier that selected the last primitive of    *)
(* the list at the highest complexity, as the selection computed for its   *)
(* seed says                                                               *)
EverySelectionReachableWitness ==
  \E g \in GenIds :
    /\ gen[g].live
    /\ gen[g].settings.difficulty = "advanced"
    /\ Len(gen[g].calls) >= 1
    /\ gen[g].calls[1].generator = "crossPattern"
    /\ gen[g].calls[1].complexity = 6
    /\ Selection(gen[g].settings.seed, "advanced") = <<"crossPattern", 6>>

----------------------------------------------------------------------------
Paths(regions) == [i \in 1..Len(regions) |-> regions[i].path]

Ids(regions) == [i \in 1..Len(regions) |-> regions[i].id]

(* C28: two new objects with the same seed, difficulty and canvas size and *)
(* any two non-empty palettes select the same primitive and complexity and *)
(* return the same number of regions with the same ids and the same paths; *)
(* the primitive and the complexity are the first two draws from           *)
(* hash(seed), whatever the palette.                                       *)
GeometryIgnoresPalette ==
  /\ \A g, h \in GenIds :
       (/\ gen[g].live /\ gen[h].live
        /\ gen[g].settings.seed = gen[h].settings.seed
        /\ gen[g].settings.difficulty = gen[h].settings.difficulty
        /\ gen[g].settings.canvasSize = gen[h].settings.canvasSize
        /\ gen[g].settings.palette # <<>> /\ gen[h].settings.palette # <<>>
        /\ Len(gen[g].calls) >= 1 /\ Len(gen[h].calls) >= 1) =>
         /\ gen[g].calls[1].generator = gen[h].calls[1].generator
         /\ gen[g].calls[1].complexity = gen[h].calls[1].complexity
         /\ Len(gen[g].calls[1].regions) = Len(gen[h].calls[1].regions)
         /\ Ids(gen[g].calls[1].regions) = Ids(gen[h].calls[1].regions)
         /\ Paths(gen[g].calls[1].regions) = Paths(gen[h].calls[1].regions)
  /\ \A g \in GenIds :
       (gen[g].live /\ Len(gen[g].calls) >= 1) =>
         <<gen[g].calls[1].generator, gen[g].calls[1].complexity>>
           = Selection(gen[g].settings.seed, gen[g].settings.difficulty)

(* Two objects that differ in nothing but palettes of different lengths    *)
(* and have both drawn several regions                                     *)
GeometryIgnoresPaletteWitness ==
  /\ gen["g1"].live /\ gen["g2"].live
  /\ gen["g1"].settings.seed = gen["g2"].settings.seed
  /\ gen["g1"].settings.difficulty = gen["g2"].settings.difficulty
  /\ gen["g1"].settings.canvasSize = gen["g2"].settings.canvasSize
  /\ Len(gen["g1"].settings.palette) = 2 /\ Len(gen["g2"].settings.palette) = 3
  /\ Len(gen["g1"].calls) >= 1 /\ Len(gen["g2"].calls) >= 1
  /\ Len(gen["g1"].calls[1].regions) >= 3
  /\ gen["g1"].calls[1].regions # gen["g2"].calls[1].regions

(* A primitive hands back the random source in the state it was given *)
PrimitiveDrawsNothing == draw.called => draw.drawn.rng = draw.rng

----------------------------------------------------------------------------
(* The memory game *)

RoundPhases == {"showing", "waiting", "revealing"}

(* C25: a session has exactly roundCount rounds: the round counter never   *)
(* exceeds roundCount; every entry into 'showing' raises it by one, from 0 *)
(* at Start Memory Game; it changes at no other step but Play Again, which *)
(* resets it; and 'finished' is entered only at round >= roundCount.       *)
ExactlyRoundCountRounds ==
  /\ [](app.gameState.round <= app.gameSettings.roundCount)
  /\ [][/\ (app'.gameState.phase = "showing" /\ app.gameState.phase # "showing") =>
             /\ app'.gameState.round = app.gameState.round + 1
             /\ app'.gameState.round \in 1..app.gameSettings.roundCount
        /\ (app'.gameState.round # app.gameState.round) =>
             \/ /\ app'.gameState.phase = "showing" /\ app.gameState.phase # "showing"
                /\ app'.gameState.round = app.gameState.round + 1
             \/ /\ app.gameState.phase = "finished" /\ app'.gameState.phase = "idle"
                /\ app'.gameState.round = 0
        /\ (app'.gameState.phase = "finished" /\ app.gameState.phase # "finished") =>
             /\ app.gameState.phase \in {"waiting", "revealing"}
             /\ app.gameState.round >= app.gameSettings.roundCount]_vars

(* A session played to its end: 'finished' after round roundCount *)
ExactlyRoundCountRoundsWitness ==
  /\ app.mounted
  /\ app.gameState.phase = "finished"
  /\ app.gameState.round = app.gameSettings.roundCount
  /\ app.gameState.round = 10

(* C26: within a round, from 'showing' to Next Round, mandalaSettings.seed *)
(* equals gameState.currentSeed, the mandala on display is the one made    *)
(* from that seed, and no step regenerates it.                             *)
SeedStableWithinRound ==
  /\ []((app.mounted /\ app.gameState.phase \in RoundPhases) =>
          /\ app.mandalaSettings.seed = app.gameState.currentSeed
          /\ app.currentMandala.settings.seed = app.gameState.currentSeed)
  /\ [][(/\ app.mounted /\ app'.mounted
         /\ app.gameState.phase \in RoundPhases /\ app'.gameState.phase \in RoundPhases
         /\ app'.gameState.round = app.gameState.round) =>
          app'.currentMandala = app.currentMandala]_vars

(* C29: once the phase is 'showing' it becomes 'waiting' (unless the       *)
(* component is unmounted first) when animation frames keep firing and the *)
(* clock moves; timeRemaining is never below 0; and the phase leaves       *)
(* 'showing' only for 'waiting', at a step taken when the time since the   *)
(* round began has reached the exposure time the round began with.         *)
ShowingEndsInWaiting ==
  /\ [](app.gameState.timeRemaining >= 0)
  /\ [][(app.gameState.phase = "showing" /\ app'.gameState.phase # "showing") =>
          /\ app'.gameState.phase = "waiting"
          /\ \E i \in 1..Len(app.frames) :
               app.now - app.gameState.currentSeed[1] >= app.frames[i].duration]_vars
  /\ (app.mounted /\ app.gameState.phase = "showing")
       ~> (app.gameState.phase = "waiting" \/ ~app.mounted)

(* A round whose countdown ran out: 'waiting' with no time remaining, the  *)
(* clock at the exposure time                                              *)
ShowingEndsInWaitingWitness ==
  /\ app.mounted
  /\ app.gameState.phase = "waiting"
  /\ app.gameState.round >= 2
  /\ app.gameState.timeRemaining = 0
  /\ app.now >= 5
  /\ app.frames = <<>>

(* C30: at most one timer chain is pending at any time, and a pending      *)
(* chain is the one of the round on display: the component is mounted, the *)
(* phase is 'showing' and the chain started when the round did.            *)
OneTimerChain ==
  /\ Len(app.frames) <= 1
  /\ \A i \in 1..Len(app.frames) :
       /\ app.mounted
       /\ app.gameState.phase = "showing"
       /\ SeedOf(app.frames[i].startTime) = app.gameState.currentSeed

====
